---------------------------- MODULE Spec2Model ----------------------------
(***************************************************************************)
(* A model of src/src/controller.js: the gamee controller session, the     *)
(* Controller and Button objects, the controller catalog and factory, and  *)
(* the keyboard bridge listeners that enableKeyboard registers.            *)
(*                                                                         *)
(* JavaScript values are modelled as follows.  A property map (an object   *)
(* literal used as a table) is a function whose domain is the set of its   *)
(* own property names; reading a property goes through Get, which, as in   *)
(* JavaScript, falls back on Object.prototype for a name that is not an    *)
(* own property.  A Button object is identified, inside its controller, by *)
(* the key it was constructed with (Button.key never changes), so a map    *)
(* that stores Button references stores keys.  The pub/sub library (Bullet)*)
(* is outside the repository: on(name, fn) subscribes, trigger(name, data) *)
(* calls the subscribers of name synchronously, in subscription order.     *)
(***************************************************************************)
EXTENDS Integers, Sequences, FiniteSets, TLC

(***************************************************************************)
(* Bounds of the model.                                                    *)
(***************************************************************************)
\* Controllers created in one behaviour of Spec.
MaxControllers == 2
\* remapButton calls the game makes in one behaviour of SpecRemap.
MaxRemaps == 2
\* Events injected in one behaviour of SpecRemap.
MaxEvents == 1

(***************************************************************************)
(* JavaScript values.                                                      *)
(***************************************************************************)
\* The value undefined: a missing property, a missing argument.
Undef == "<undefined>"
\* The function Object, which every object literal inherits as its
\* property "constructor" from Object.prototype.
ObjectCtor == "<function Object>"
\* The only name of Object.prototype the model's inputs draw.
ProtoNames == {"constructor"}

\* JavaScript truthiness of a string-or-undefined value: undefined and the
\* empty string are falsy, every other string and every object is truthy.
Truthy(v) == v \notin {Undef, ""}

\* obj[k]: the own property, else the one inherited from Object.prototype,
\* else undefined.
Get(obj, k) ==
    IF k \in DOMAIN obj THEN obj[k]
    ELSE IF k \in ProtoNames THEN ObjectCtor
    ELSE Undef

\* obj[k] = v
Put(obj, k, v) == [x \in (DOMAIN obj) \cup {k} |-> IF x = k THEN v ELSE obj[x]]

\* delete obj[k]
Delete(obj, k) == [x \in (DOMAIN obj) \ {k} |-> obj[x]]

\* {}
EmptyObject == [x \in {} |-> Undef]

\* A thrown Error, by its kind.
NoError == "none"
UnsupportedControllerType == "Unsupported controller type"
NoControllerPresent == "No controller present"
TypeError == "TypeError"

(***************************************************************************)
(* Event payloads.  present = FALSE is a trigger without a data argument;  *)
(* button = Undef is a payload object without a button field.              *)
(***************************************************************************)
NoData == [present |-> FALSE, button |-> Undef]
Data(b) == [present |-> TRUE, button |-> b]

\* The payload of a touch event: the position of the touch, x and y in [0, 1].
Position(x, y) == [present |-> TRUE, button |-> Undef, position |-> <<x, y>>]

\* One call of a subscriber list: the event name and payload given to
\* trigger on a controller (key = Undef) or on one of its Buttons.
ControllerEvent(i, ev, data) == [on |-> "controller", ctl |-> i, key |-> Undef, ev |-> ev, data |-> data]
ButtonEvent(i, key, ev) == [on |-> "button", ctl |-> i, key |-> key, ev |-> ev, data |-> NoData]

(***************************************************************************)
(* Button                                                                  *)
(***************************************************************************)
\* Button as it would be if a new Button started released.
Button_StartsReleased(key, keyCode) == [key |-> key, keyCode |-> keyCode, pressed |-> FALSE]

\* new Button(key, keyCode)
Button(key, keyCode) == [key |-> key, keyCode |-> keyCode, pressed |-> TRUE]

\* The Button's own subscribers, run by button.trigger(ev).
ButtonTrigger(b, ev) ==
    IF ev = "keydown" THEN [b EXCEPT !.pressed = TRUE]
    ELSE IF ev = "keyup" THEN [b EXCEPT !.pressed = FALSE]
    ELSE b

\* button.isDown()
isDown(b) == b.pressed

(***************************************************************************)
(* Controller                                                              *)
(***************************************************************************)
\* The prototype chain of an object decides which methods it has.
\*   "Controller": Controller.prototype (addButton, enableKeyboard, remapButton)
\*   "Touch":      TouchController.prototype, which inherits from itself only
\*   "Object":     Object.prototype (an object made by new Object())
\* The Bullet methods on and trigger are own properties set by the Bullet
\* constructor, so every object built through Controller has them.
HasControllerMethods(c) == c.proto = "Controller"
HasTrigger(c) == c.proto \in {"Controller", "Touch"}

\* Controller.call(this): empty buttons and buttonAlias, the four subscribers.
Controller(type, proto) ==
    [type |-> type, proto |-> proto, buttons |-> EmptyObject,
     buttonAlias |-> EmptyObject, btn |-> EmptyObject]

\* controller.addButton(button)
addButton(c, button) ==
    [c EXCEPT !.buttons = Put(@, button.key, button.key),
              !.btn = Put(@, button.key, button)]

RECURSIVE addButtons(_, _)
addButtons(c, layout) ==
    IF layout = <<>> THEN c
    ELSE addButtons(addButton(c, Button(layout[1][1], layout[1][2])), Tail(layout))

\* The buttons each constructor adds, in order: <<name, keyCode>>.
OneButtonController == << <<"button", 32>> >>
TwoButtonController == << <<"left", 37>>, <<"right", 39>> >>
\* FourButtonController with the key its comment names for "up" (left arrow).
FourButtonController_UpIsLeftArrow ==
    << <<"up", 37>>, <<"left", 37>>, <<"right", 39>>, <<"A", 32>> >>
FourButtonController == << <<"up", 38>>, <<"left", 37>>, <<"right", 39>>, <<"A", 32>> >>
FiveButtonController ==
    << <<"up", 38>>, <<"left", 37>>, <<"right", 39>>, <<"down", 40>>, <<"A", 32>> >>
SixButtonController ==
    << <<"up", 38>>, <<"left", 37>>, <<"right", 39>>, <<"down", 40>>, <<"A", 32>>,
       <<"B", 17>> >>

\* The table from type identifier to constructor.
controllerTypes ==
    [t \in {"OneButton", "TwoButtons", "FourButtons", "FiveButtons", "SixButtons", "Touch"} |->
        CASE t = "OneButton" -> "OneButtonController"
          [] t = "TwoButtons" -> "TwoButtonController"
          [] t = "FourButtons" -> "FourButtonController"
          [] t = "FiveButtons" -> "FiveButtonController"
          [] t = "SixButtons" -> "SixButtonController"
          [] t = "Touch" -> "TouchController"]

LayoutOf(ctor) ==
    CASE ctor = "OneButtonController" -> OneButtonController
      [] ctor = "TwoButtonController" -> TwoButtonController
      [] ctor = "FourButtonController" -> FourButtonController
      [] ctor = "FiveButtonController" -> FiveButtonController
      [] ctor = "SixButtonController" -> SixButtonController

\* TouchController: Controller.call(this) and the five touch relays; its
\* prototype is Object.create(TouchController.prototype), not Controller's.
TouchController(type) == Controller(type, "Touch")

\* new ctor(), for a value ctor read from controllerTypes.
New(type, ctor) ==
    IF ctor = ObjectCtor THEN Controller(type, "Object")
    ELSE IF ctor = "TouchController" THEN TouchController(type)
    ELSE addButtons(Controller(type, "Controller"), LayoutOf(ctor))


\* controller.remapButton(oldName, {name: newName})
remapButton(c, oldName, newName) ==
    IF Get(c.buttons, oldName) # Undef
    THEN [c EXCEPT !.buttonAlias = Put(@, oldName, newName),
                   !.buttons = Delete(Put(@, newName, Get(c.buttons, oldName)), oldName)]
    ELSE c

\* The keyCodes table that controller.enableKeyboard() builds: keyCode -> Button,
\* for every value of the buttons map that has a truthy keyCode.
KeyCodesOf(c) ==
    LET withCode == {n \in DOMAIN c.buttons :
                        c.buttons[n] \in DOMAIN c.btn /\ c.btn[c.buttons[n]].keyCode # 0}
        codes == {c.btn[c.buttons[n]].keyCode : n \in withCode}
    IN [k \in codes |-> c.buttons[CHOOSE n \in withCode : c.btn[c.buttons[n]].keyCode = k]]

\* controller.enableKeyboard() on the controller stored at index i: the pair of
\* listeners handed to gamee._keydown and gamee._keyup, which share keyCodes.
enableKeyboard(c, i) == [ctl |-> i, keyCodes |-> KeyCodesOf(c)]

(***************************************************************************)
(* Dispatch.  An outcome is the controller after the call, the subscriber  *)
(* lists that were run, in order, and the error thrown (NoError if none).  *)
(***************************************************************************)
Outcome(c, fired, err) == [ctl |-> c, fired |-> fired, err |-> err]

\* OnPublicKey as it would be if the subscriber passed the event on to every
\* Button of the controller.
OnPublicKey_EveryButton(c, i, ev, data) ==
    IF ~data.present THEN Outcome(c, <<>>, TypeError)
    ELSE IF ~Truthy(data.button) \/ Get(c.buttons, data.button) = Undef
    THEN Outcome(c, <<>>, NoError)
    ELSE LET target == Get(c.buttons, data.button) IN
         IF target \notin DOMAIN c.btn
         THEN Outcome(c, <<>>, TypeError)
         ELSE Outcome([c EXCEPT !.btn = [b \in DOMAIN c.btn |-> ButtonTrigger(c.btn[b], ev)]],
                      <<ButtonEvent(i, target, ev)>>, NoError)

\* The subscriber of the public keydown / keyup event of a controller.
OnPublicKey(c, i, ev, data) ==
    IF ~data.present THEN Outcome(c, <<>>, TypeError)
    ELSE IF ~Truthy(data.button) \/ Get(c.buttons, data.button) = Undef
    THEN Outcome(c, <<>>, NoError)
    ELSE LET target == Get(c.buttons, data.button) IN
         IF target \notin DOMAIN c.btn
         THEN Outcome(c, <<>>, TypeError)
         ELSE Outcome([c EXCEPT !.btn[target] = ButtonTrigger(@, ev)],
                      <<ButtonEvent(i, target, ev)>>, NoError)

\* self.trigger(ev, data) for ev the public keydown or keyup.
TriggerPublicKey(c, i, ev, data) ==
    LET r == OnPublicKey(c, i, ev, data)
    IN Outcome(r.ctl, <<ControllerEvent(i, ev, data)>> \o r.fired, r.err)

\* The payload as the subscriber of $keydown / $keyup leaves it.
AliasRewrite(c, data) ==
    IF Truthy(data.button) /\ Truthy(Get(c.buttonAlias, data.button))
    THEN Data(Get(c.buttonAlias, data.button))
    ELSE data

\* OnPrivateKey as it would be if the $keyup subscriber, a copy of the $keydown
\* one, still re-emitted keydown.
OnPrivateKey_KeyupEmitsKeydown(c, i, ev, data) ==
    IF ~data.present THEN Outcome(c, <<>>, TypeError)
    ELSE TriggerPublicKey(c, i, "keydown", AliasRewrite(c, data))

\* The subscriber of the private $keydown / $keyup event of a controller.
OnPrivateKey(c, i, ev, data) ==
    IF ~data.present THEN Outcome(c, <<>>, TypeError)
    ELSE TriggerPublicKey(c, i, IF ev = "$keydown" THEN "keydown" ELSE "keyup",
                          AliasRewrite(c, data))

TouchPrivate == {"$touchstart", "$touchend", "$touchmove", "$touchleave", "$touchcancel"}
\* TouchPublic as it would be if the $touchleave relay, a copy of its neighbour,
\* re-emitted touchcancel.
TouchPublic_LeaveIsCancel(ev) ==
    CASE ev = "$touchstart" -> "touchstart"
      [] ev = "$touchend" -> "touchend"
      [] ev = "$touchmove" -> "touchmove"
      [] ev = "$touchleave" -> "touchcancel"
      [] ev = "$touchcancel" -> "touchcancel"

\* The public event each of the five relays of TouchController re-emits.
TouchPublic(ev) ==
    CASE ev = "$touchstart" -> "touchstart"
      [] ev = "$touchend" -> "touchend"
      [] ev = "$touchmove" -> "touchmove"
      [] ev = "$touchleave" -> "touchleave"
      [] ev = "$touchcancel" -> "touchcancel"

\* controller.trigger(ev, data) on an object built through Controller.
ControllerTrigger(c, i, ev, data) ==
    LET r == IF ev \in {"$keydown", "$keyup"} THEN OnPrivateKey(c, i, ev, data)
             ELSE IF ev \in {"keydown", "keyup"} THEN OnPublicKey(c, i, ev, data)
             ELSE IF ev \in TouchPrivate /\ c.proto = "Touch"
             THEN Outcome(c, <<ControllerEvent(i, TouchPublic(ev), data)>>, NoError)
             ELSE Outcome(c, <<>>, NoError)
    IN Outcome(r.ctl, <<ControllerEvent(i, ev, data)>> \o r.fired, r.err)

(***************************************************************************)
(* What the game's subscribers observe.  The constructors subscribe their  *)
(* own functions first, so a function the game subscribes later to the     *)
(* same event comes after them in the subscriber list.  A view is one call *)
(* of a game subscriber: the object and event it was subscribed to, the    *)
(* button it is called for, and that button's isDown() at the call (known  *)
(* = FALSE when the name is of no Button of the controller).               *)
(***************************************************************************)
\* Subscribers as they would be if the game's function were called first.
Subscribers_GameFirst == <<"game", "internal">>

\* The subscriber list of keydown / keyup on a Button or on a controller.
Subscribers == <<"internal", "game">>

ButtonView(i, b, ev) ==
    [on |-> "button", ctl |-> i, key |-> b.key, ev |-> ev, known |-> TRUE, down |-> isDown(b)]

ControllerView(c, i, ev, data) ==
    LET target == IF data.present THEN Get(c.buttons, data.button) ELSE Undef
        known == target \in DOMAIN c.btn
    IN [on |-> "controller", ctl |-> i, key |-> data.button, ev |-> ev, known |-> known,
        down |-> IF known THEN isDown(c.btn[target]) ELSE FALSE]

\* button.trigger(ev): the subscribers subs of the Button b, in order.
RECURSIVE RunButtonSubscribers(_, _, _, _)
RunButtonSubscribers(subs, b, i, ev) ==
    IF subs = <<>> THEN <<>>
    ELSE IF Head(subs) = "internal"
    THEN RunButtonSubscribers(Tail(subs), ButtonTrigger(b, ev), i, ev)
    ELSE <<ButtonView(i, b, ev)>> \o RunButtonSubscribers(Tail(subs), b, i, ev)

\* controller.trigger(ev, data) for the public keydown / keyup: the subscribers
\* subs, in order; the Button dispatch made by the internal one runs to its end
\* inside it, and an error it throws ends the dispatch.
RECURSIVE RunPublicSubscribers(_, _, _, _, _)
RunPublicSubscribers(subs, c, i, ev, data) ==
    IF subs = <<>> THEN <<>>
    ELSE IF Head(subs) = "internal"
    THEN LET r == OnPublicKey(c, i, ev, data)
             nested == IF r.fired = <<>> THEN <<>>
                       ELSE RunButtonSubscribers(Subscribers, c.btn[r.fired[1].key], i, ev)
         IN nested \o (IF r.err # NoError THEN <<>>
                       ELSE RunPublicSubscribers(Tail(subs), r.ctl, i, ev, data))
    ELSE <<ControllerView(c, i, ev, data)>> \o RunPublicSubscribers(Tail(subs), c, i, ev, data)

\* The calls of game subscribers of keydown / keyup, on the controller and on its
\* Buttons, that controller.trigger(ev, data) makes, in order.
Views(c, i, ev, data) ==
    IF ev \in {"keydown", "keyup"} THEN RunPublicSubscribers(Subscribers, c, i, ev, data)
    ELSE IF ev \in {"$keydown", "$keyup"} /\ data.present
    THEN RunPublicSubscribers(Subscribers, c, i, IF ev = "$keydown" THEN "keydown" ELSE "keyup",
                              AliasRewrite(c, data))
    ELSE <<>>

(***************************************************************************)
(* The factory.                                                            *)
(***************************************************************************)
\* opts: enableKeyboard, and buttons as the list of its entries <<old, new>>
\* in iteration order (hasButtons = FALSE: no buttons property).
NoOpts == [enableKeyboard |-> FALSE, hasButtons |-> FALSE, buttons |-> <<>>]

RECURSIVE remapAll(_, _)
remapAll(c, table) ==
    IF table = <<>> THEN c
    ELSE remapAll(remapButton(c, table[1][1], table[1][2]), Tail(table))

\* createController(type, opts), the controller to be stored at index i:
\* the error thrown, the controller returned, the keyboard listeners registered.
createController(type, opts, i) ==
    IF ~Truthy(Get(controllerTypes, type))
    THEN [err |-> UnsupportedControllerType, ctl |-> Controller(type, "Object"), listeners |-> <<>>]
    ELSE LET fresh == New(type, Get(controllerTypes, type))
             needsMethods == opts.enableKeyboard \/ (opts.hasButtons /\ opts.buttons # <<>>)
         IN IF needsMethods /\ ~HasControllerMethods(fresh)
            THEN [err |-> TypeError, ctl |-> fresh, listeners |-> <<>>]
            ELSE [err |-> NoError,
                  ctl |-> IF opts.hasButtons THEN remapAll(fresh, opts.buttons) ELSE fresh,
                  listeners |-> IF opts.enableKeyboard THEN <<enableKeyboard(fresh, i)>>
                                ELSE <<>>]

(***************************************************************************)
(* State.                                                                  *)
(***************************************************************************)
VARIABLES
    controllers,     \* every object createController has returned, in creation order
    mainController,  \* index in controllers of the main controller, 0 for undefined
    native,          \* the calls made on global.$gameeNative, in order
    keyListeners,    \* the listeners registered with gamee._keydown / gamee._keyup
    last,            \* the last operation: its arguments, error, result, dispatches
    lastEv,          \* history: per controller and Button, the last keydown/keyup it got
    named,           \* history: per controller and name, the last $keydown/$keyup the
                     \* session trigger was given with that button name
    used             \* operations counted against the bounds

vars == <<controllers, mainController, native, keyListeners, last, lastEv, named, used>>

\* Inputs.
TypeIds == (DOMAIN controllerTypes) \cup {"Bogus"} \cup ProtoNames
LayoutTypes == {"OneButton", "TwoButtons", "FourButtons", "FiveButtons", "SixButtons"}
Names == {"button", "left", "right", "up", "down", "A", "B", "throttle", "", "constructor"}
KeyEvents == {"keydown", "keyup"}
PrivateKeyEvents == {"$keydown", "$keyup"}
\* The key codes of the layouts, and Enter, which no layout uses.
KeyCodes == {17, 32, 37, 38, 39, 40, 13}

Init ==
    /\ controllers = <<>>
    /\ mainController = 0
    /\ native = <<>>
    /\ keyListeners = <<>>
    /\ last = [op |-> "init", err |-> NoError, fired |-> <<>>]
    /\ lastEv = <<>>
    /\ named = <<>>
    /\ used = [events |-> 0, remaps |-> 0]

\* The histories of a controller that has just been created.
FreshLastEv(c) == [k \in DOMAIN c.btn |-> "none"]
FreshNamed(c) == [n \in DOMAIN c.buttons |-> "none"]

\* lastEv after the Button dispatches of fired, in order.
RECURSIVE Replay(_, _)
Replay(h, fired) ==
    IF fired = <<>> THEN h
    ELSE LET e == Head(fired)
         IN Replay(IF e.on = "button" /\ e.ev \in KeyEvents
                   THEN [h EXCEPT ![e.ctl][e.key] = e.ev] ELSE h,
                   Tail(fired))

(***************************************************************************)
(* gamee.controller                                                        *)
(***************************************************************************)
\* The state change shared by requestController and additionalController when
\* createController returns r.
Created(r) ==
    /\ controllers' = Append(controllers, r.ctl)
    /\ keyListeners' = keyListeners \o r.listeners
    /\ lastEv' = Append(lastEv, FreshLastEv(r.ctl))
    /\ named' = Append(named, FreshNamed(r.ctl))

\* gamee.controller.requestController(type, opts)
requestController(type, opts) ==
    LET i == Len(controllers) + 1
        r == createController(type, opts, i)
    IN /\ last' = [op |-> "requestController", type |-> type, opts |-> opts, err |-> r.err,
                   ret |-> IF r.err = NoError THEN i ELSE 0, fired |-> <<>>]
       /\ IF r.err = NoError
          THEN /\ Created(r)
               /\ native' = Append(native, [call |-> "requestController", type |-> type])
               /\ mainController' = i
          ELSE UNCHANGED <<controllers, keyListeners, lastEv, named, native, mainController>>

\* additionalController as it would be had it been copied from requestController
\* with the assignment to mainController left in.
additionalController_SetsMain(type, opts) ==
    LET i == Len(controllers) + 1
        r == createController(type, opts, i)
    IN /\ last' = [op |-> "additionalController", type |-> type, opts |-> opts, err |-> r.err,
                   ret |-> IF r.err = NoError THEN i ELSE 0, fired |-> <<>>]
       /\ IF r.err = NoError
          THEN /\ Created(r)
               /\ native' = Append(native, [call |-> "additionalController", type |-> type])
               /\ mainController' = i
          ELSE UNCHANGED <<controllers, keyListeners, lastEv, named, native, mainController>>

\* gamee.controller.additionalController(type, opts)
additionalController(type, opts) ==
    LET i == Len(controllers) + 1
        r == createController(type, opts, i)
    IN /\ last' = [op |-> "additionalController", type |-> type, opts |-> opts, err |-> r.err,
                   ret |-> IF r.err = NoError THEN i ELSE 0, fired |-> <<>>]
       /\ IF r.err = NoError
          THEN /\ Created(r)
               /\ native' = Append(native, [call |-> "additionalController", type |-> type])
          ELSE UNCHANGED <<controllers, keyListeners, lastEv, named, native>>
       /\ UNCHANGED mainController

\* gamee.controller.trigger(ev, data)
trigger(ev, data) ==
    /\ UNCHANGED <<mainController, native, keyListeners>>
    /\ IF mainController = 0
       THEN /\ last' = [op |-> "trigger", ev |-> ev, data |-> data, err |-> NoControllerPresent,
                        fired |-> <<>>]
            /\ UNCHANGED <<controllers, lastEv, named>>
       ELSE IF ~HasTrigger(controllers[mainController])
       THEN /\ last' = [op |-> "trigger", ev |-> ev, data |-> data, err |-> TypeError,
                        fired |-> <<>>]
            /\ UNCHANGED <<controllers, lastEv, named>>
       ELSE LET r == ControllerTrigger(controllers[mainController], mainController, ev, data)
            IN /\ last' = [op |-> "trigger", ev |-> ev, data |-> data, err |-> r.err,
                           fired |-> r.fired,
                           views |-> Views(controllers[mainController], mainController, ev, data)]
               /\ controllers' = [controllers EXCEPT ![mainController] = r.ctl]
               /\ lastEv' = Replay(lastEv, r.fired)
               /\ named' = IF ev \in PrivateKeyEvents /\ data.present
                              /\ data.button \in DOMAIN named[mainController]
                           THEN [named EXCEPT ![mainController][data.button] = ev]
                           ELSE named

(***************************************************************************)
(* Calls the game makes on the objects it was given.                       *)
(***************************************************************************)
\* controller.trigger(ev, data) on the controller at index i.
CallTrigger(i, ev, data) ==
    /\ HasTrigger(controllers[i])
    /\ LET r == ControllerTrigger(controllers[i], i, ev, data)
       IN /\ last' = [op |-> "controller.trigger", ctl |-> i, ev |-> ev, data |-> data,
                      err |-> r.err, fired |-> r.fired,
                      views |-> Views(controllers[i], i, ev, data)]
          /\ controllers' = [controllers EXCEPT ![i] = r.ctl]
          /\ lastEv' = Replay(lastEv, r.fired)
    /\ UNCHANGED <<mainController, native, keyListeners, named>>

\* button.trigger(ev) on the Button constructed with key by the controller at index i.
CallButtonTrigger(i, key, ev) ==
    /\ key \in DOMAIN controllers[i].btn
    /\ LET fired == <<ButtonEvent(i, key, ev)>>
       IN /\ last' = [op |-> "button.trigger", ctl |-> i, key |-> key, ev |-> ev,
                      err |-> NoError, fired |-> fired,
                      views |-> RunButtonSubscribers(Subscribers, controllers[i].btn[key], i, ev)]
          /\ controllers' = [controllers EXCEPT ![i].btn[key] = ButtonTrigger(@, ev)]
          /\ lastEv' = Replay(lastEv, fired)
    /\ UNCHANGED <<mainController, native, keyListeners, named>>

\* controller.remapButton(oldName, {name: newName}) on the controller at index i.
CallRemapButton(i, oldName, newName) ==
    /\ HasControllerMethods(controllers[i])
    /\ last' = [op |-> "remapButton", ctl |-> i, old |-> oldName, new |-> newName,
                moved |-> Get(controllers[i].buttons, oldName), err |-> NoError,
                fired |-> <<>>]
    /\ controllers' = [controllers EXCEPT ![i] = remapButton(@, oldName, newName)]
    /\ UNCHANGED <<mainController, native, keyListeners, lastEv, named>>

\* controller.enableKeyboard() on the controller at index i.
CallEnableKeyboard(i) ==
    /\ HasControllerMethods(controllers[i])
    /\ last' = [op |-> "enableKeyboard", ctl |-> i, err |-> NoError, fired |-> <<>>]
    /\ keyListeners' = Append(keyListeners, enableKeyboard(controllers[i], i))
    /\ UNCHANGED <<controllers, mainController, native, lastEv, named>>

(***************************************************************************)
(* The keyboard bridge: a physical key event is given to every registered  *)
(* listener, in registration order.                                        *)
(***************************************************************************)
\* KeyListener as it would be if ev.preventDefault() came before the lookup of
\* the key code.
KeyListener_PreventsFirst(l, k, ctls, ev, code) ==
    IF code \notin DOMAIN l.keyCodes
    THEN [ctls |-> ctls, fired |-> <<>>, prevented |-> <<k>>, err |-> NoError]
    ELSE LET r == ControllerTrigger(ctls[l.ctl], l.ctl, ev, Data(l.keyCodes[code]))
         IN [ctls |-> [ctls EXCEPT ![l.ctl] = r.ctl], fired |-> r.fired,
             prevented |-> <<k>>, err |-> r.err]

\* KeyListener as it would be if only the main controller's listeners acted.
KeyListener_MainOnly(l, k, ctls, ev, code) ==
    IF code \notin DOMAIN l.keyCodes \/ l.ctl # mainController
    THEN [ctls |-> ctls, fired |-> <<>>, prevented |-> <<>>, err |-> NoError]
    ELSE LET r == ControllerTrigger(ctls[l.ctl], l.ctl, ev, Data(l.keyCodes[code]))
         IN [ctls |-> [ctls EXCEPT ![l.ctl] = r.ctl], fired |-> r.fired,
             prevented |-> <<k>>, err |-> r.err]

\* One listener (of gamee._keydown for ev = "keydown", of gamee._keyup for
\* ev = "keyup") on the event with key code code.
KeyListener(l, k, ctls, ev, code) ==
    IF code \notin DOMAIN l.keyCodes
    THEN [ctls |-> ctls, fired |-> <<>>, prevented |-> <<>>, err |-> NoError]
    ELSE LET r == ControllerTrigger(ctls[l.ctl], l.ctl, ev, Data(l.keyCodes[code]))
         IN [ctls |-> [ctls EXCEPT ![l.ctl] = r.ctl], fired |-> r.fired,
             prevented |-> <<k>>, err |-> r.err]

\* The listeners from the k-th on, in order.
RECURSIVE DeliverKey(_, _, _, _)
DeliverKey(k, ctls, ev, code) ==
    IF k > Len(keyListeners)
    THEN [ctls |-> ctls, fired |-> <<>>, prevented |-> <<>>, err |-> NoError]
    ELSE LET one == KeyListener(keyListeners[k], k, ctls, ev, code)
             rest == DeliverKey(k + 1, one.ctls, ev, code)
         IN [ctls |-> rest.ctls, fired |-> one.fired \o rest.fired,
             prevented |-> one.prevented \o rest.prevented,
             err |-> IF one.err # NoError THEN one.err ELSE rest.err]

Key(ev, code) ==
    /\ LET r == DeliverKey(1, controllers, ev, code)
       IN /\ last' = [op |-> "key", ev |-> ev, code |-> code, err |-> r.err,
                      fired |-> r.fired, prevented |-> r.prevented]
          /\ controllers' = r.ctls
          /\ lastEv' = Replay(lastEv, r.fired)
    /\ UNCHANGED <<mainController, native, keyListeners, named>>

\* A physical key press.
KeyDown(code) == Key("keydown", code)

\* A physical key release.
KeyUp(code) == Key("keyup", code)

(***************************************************************************)
(* Specifications.  Each draws the operations and inputs of one part of    *)
(* the program; the operations are the ones defined above.                 *)
(***************************************************************************)
Uncounted == UNCHANGED used
CountEvent == used.events < MaxEvents /\ used' = [used EXCEPT !.events = @ + 1]
CountRemap == used.remaps < MaxRemaps /\ used' = [used EXCEPT !.remaps = @ + 1]
Room == Len(controllers) < MaxControllers
Ctls == 1..Len(controllers)

KeyboardOpts == [enableKeyboard |-> TRUE, hasButtons |-> FALSE, buttons |-> <<>>]

\* Spec: the gamee.controller namespace, as the game and the host bridge use
\* it: controllers are requested and events are pushed through the session.
SessionTypes == {"TwoButtons", "Touch", "Bogus", "constructor"}
SessionEvents == {"$keydown", "$keyup", "keydown", "keyup", "$touchstart"}
SessionPayloads == {NoData, Data(Undef), Data("left"), Data("constructor")}

Next ==
    \/ Room /\ Uncounted /\ \E t \in SessionTypes : requestController(t, NoOpts)
    \/ Room /\ Uncounted /\ \E t \in SessionTypes : additionalController(t, NoOpts)
    \/ Uncounted /\ \E ev \in SessionEvents, d \in SessionPayloads : trigger(ev, d)

Spec == Init /\ [][Next]_vars

\* SpecCreate: one call of the factory from the initial state, over every type
\* and a range of options.
TableNames == {"left", "right", "throttle", "", "constructor"}
Entries == TableNames \X TableNames
Tables ==
    {<<>>} \cup {<<e>> : e \in Names \X (Names \cup {"throttle"})}
           \cup {<<e, f>> : e \in Entries, f \in Entries}
CreateOpts ==
    {[enableKeyboard |-> k, hasButtons |-> FALSE, buttons |-> <<>>] : k \in BOOLEAN}
    \cup {[enableKeyboard |-> k, hasButtons |-> TRUE, buttons |-> t] : k \in BOOLEAN, t \in Tables}

NextCreate ==
    \/ last.op = "init" /\ Uncounted /\ \E t \in TypeIds, o \in CreateOpts : requestController(t, o)
    \/ last.op = "init" /\ Uncounted /\ \E t \in TypeIds, o \in CreateOpts : additionalController(t, o)

SpecCreate == Init /\ [][NextCreate]_vars

\* SpecLayout: one controller is requested, of any type, and from then on the
\* host bridge pushes $keydown / $keyup through the session.
NextLayout ==
    \/ controllers = <<>> /\ Uncounted /\ \E t \in TypeIds : requestController(t, NoOpts)
    \/ Uncounted /\ \E ev \in PrivateKeyEvents, n \in Names : trigger(ev, Data(n))

SpecLayout == Init /\ [][NextLayout]_vars

\* SpecButton: one controller of a button layout, whose Buttons get keydown
\* and keyup directly (button.trigger) and through the controller's events.
NextButton ==
    \/ last.op = "init" /\ Uncounted /\ \E t \in LayoutTypes : requestController(t, NoOpts)
    \/ Uncounted /\ \E i \in Ctls, k \in Names, ev \in KeyEvents : CallButtonTrigger(i, k, ev)
    \/ Uncounted /\ \E i \in Ctls, ev \in KeyEvents \cup PrivateKeyEvents, n \in Names \cup {Undef} :
            CallTrigger(i, ev, Data(n))

SpecButton == Init /\ [][NextButton]_vars

\* SpecKeyboard: one controller with the keyboard enabled, through the options
\* or by a call of enableKeyboard, and physical key presses and releases.
NextKeyboard ==
    \/ last.op = "init" /\ Uncounted
            /\ \E t \in DOMAIN controllerTypes, o \in {NoOpts, KeyboardOpts} : requestController(t, o)
    \/ keyListeners = <<>> /\ Uncounted /\ \E i \in Ctls : CallEnableKeyboard(i)
    \/ Uncounted /\ \E code \in KeyCodes : KeyDown(code)
    \/ Uncounted /\ \E code \in KeyCodes : KeyUp(code)

SpecKeyboard == Init /\ [][NextKeyboard]_vars

\* SpecRemap: one controller, built with or without a remap table and the
\* keyboard, then remapped by the game, and then given events.
RemapTypes == {"OneButton", "TwoButtons", "FourButtons"}
RemapNames == {"button", "left", "right", "throttle", "", "constructor"}
RemapOpts ==
    {NoOpts, KeyboardOpts}
    \cup {[enableKeyboard |-> k, hasButtons |-> TRUE, buttons |-> <<e>>] :
            k \in BOOLEAN, e \in {<<"left", "throttle">>, <<"button", "throttle">>}}

NextRemap ==
    \/ last.op = "init" /\ Uncounted /\ \E t \in RemapTypes, o \in RemapOpts : requestController(t, o)
    \/ CountRemap /\ \E i \in Ctls, o \in RemapNames, n \in RemapNames : CallRemapButton(i, o, n)
    \/ keyListeners = <<>> /\ Uncounted /\ \E i \in Ctls : CallEnableKeyboard(i)
    \/ CountEvent /\ \E i \in Ctls, ev \in KeyEvents \cup PrivateKeyEvents, n \in RemapNames :
            CallTrigger(i, ev, Data(n))
    \/ CountEvent /\ \E code \in KeyCodes : KeyDown(code)
    \/ CountEvent /\ \E code \in KeyCodes : KeyUp(code)

SpecRemap == Init /\ [][NextRemap]_vars

\* SpecTouch: one controller of any type, given touch events and key events,
\* with and without a position payload, directly and through the session.
TouchEvents == TouchPrivate \cup {TouchPublic(ev) : ev \in TouchPrivate} \cup {"$keydown", "keyup"}
TouchPayloads == {NoData} \cup {Position(x, y) : x \in {0, 1}, y \in {0, 1}}

NextTouch ==
    \/ last.op = "init" /\ Uncounted /\ \E t \in TypeIds : requestController(t, NoOpts)
    \/ Uncounted /\ \E ev \in TouchEvents, d \in TouchPayloads : trigger(ev, d)
    \/ Uncounted /\ \E i \in Ctls, ev \in TouchEvents, d \in TouchPayloads : CallTrigger(i, ev, d)

SpecTouch == Init /\ [][NextTouch]_vars

\* SpecFrame: a main controller and additional ones, with and without a remap
\* table, given events directly and through the session.
FrameTypes == {"TwoButtons", "Touch"}
FrameOpts == {NoOpts, [enableKeyboard |-> FALSE, hasButtons |-> TRUE,
                       buttons |-> << <<"left", "throttle">> >>]}
FrameEvents == {"$keydown", "keyup", "$touchstart"}
FramePayloads == {NoData, Data("left"), Data("throttle"), Data("constructor")}

NextFrame ==
    \/ controllers = <<>> /\ Uncounted /\ \E o \in FrameOpts : requestController("TwoButtons", o)
    \/ controllers # <<>> /\ Room /\ Uncounted
            /\ \E t \in FrameTypes, o \in FrameOpts : additionalController(t, o)
    \/ Uncounted /\ \E ev \in FrameEvents, d \in FramePayloads : trigger(ev, d)
    \/ Uncounted /\ \E i \in Ctls, ev \in FrameEvents, d \in FramePayloads : CallTrigger(i, ev, d)

SpecFrame == Init /\ [][NextFrame]_vars

\* SpecKeys: several controllers, requested or additional, some with the
\* keyboard enabled through the options or by a call, and physical keys.
KeysTypes == {"OneButton", "TwoButtons"}
\* Space (OneButton), left arrow (TwoButtons) and Enter (neither).
KeysCodes == {32, 37, 13}
Listening(i) == \E j \in 1..Len(keyListeners) : keyListeners[j].ctl = i

NextKeys ==
    \/ Room /\ Uncounted
            /\ \E t \in KeysTypes, o \in {NoOpts, KeyboardOpts} : requestController(t, o)
    \/ Room /\ Uncounted
            /\ \E t \in KeysTypes, o \in {NoOpts, KeyboardOpts} : additionalController(t, o)
    \/ Uncounted /\ \E i \in Ctls : ~Listening(i) /\ CallEnableKeyboard(i)
    \/ Uncounted /\ \E code \in KeysCodes : KeyDown(code)
    \/ Uncounted /\ \E code \in KeysCodes : KeyUp(code)

SpecKeys == Init /\ [][NextKeys]_vars

(***************************************************************************)
(* Properties.                                                             *)
(***************************************************************************)
IsCreate(l) == l.op \in {"requestController", "additionalController"}

\* The controller returned by the most recent successful requestController
\* (controllers and native grow together, one entry per successful call), 0 if none.
LastRequested ==
    LET req == {k \in 1..Len(native) : native[k].call = "requestController"}
    IN IF req = {} THEN 0 ELSE CHOOSE k \in req : \A j \in req : j <= k

\* C1: the session's trigger fails with NoControllerPresent if and only if no
\* requestController call has completed successfully so far; when it fails
\* nothing changes, and otherwise the event is given to the main controller
\* with the same event name and payload.
C1_TriggerNeedsController ==
    [][last'.op = "trigger" =>
        /\ (last'.err = NoControllerPresent) <=> (LastRequested = 0)
        /\ last'.err = NoControllerPresent =>
              UNCHANGED <<controllers, mainController, native, keyListeners>>
        /\ last'.err # NoControllerPresent =>
              /\ last'.fired # <<>>
              /\ last'.fired[1] = ControllerEvent(LastRequested, last'.ev, last'.data)]_vars

\* C2: the session's trigger routes to exactly the controller returned by the
\* most recent successful requestController: additionalController never changes
\* the main controller, a later requestController replaces it, and no other
\* controller receives anything from the session's trigger.
C2_LastRequestWins ==
    [][/\ mainController' = LastRequested'
       /\ last'.op = "additionalController" => mainController' = mainController
       /\ (last'.op = "requestController" /\ last'.err = NoError) =>
             mainController' = last'.ret
       /\ last'.op = "trigger" =>
             /\ \A k \in 1..Len(last'.fired) : last'.fired[k].ctl = LastRequested
             /\ (LastRequested # 0 /\ HasTrigger(controllers[LastRequested])) =>
                   /\ last'.fired # <<>>
                   /\ last'.fired[1] = ControllerEvent(LastRequested, last'.ev, last'.data)
             /\ \A k \in Ctls \ {LastRequested} :
                   controllers'[k] = controllers[k] /\ lastEv'[k] = lastEv[k]
             /\ mainController' = mainController]_vars

\* C2's case: an additional controller was built after the requested one, and
\* a session event reached a Button of the requested one.
C2_Witness ==
    /\ Len(native) = 2
    /\ native[1].call = "requestController"
    /\ native[2].call = "additionalController"
    /\ controllers[2].proto = "Controller"
    /\ last.op = "trigger"
    /\ \E k \in 1..Len(last.fired) : last.fired[k].on = "button" /\ last.fired[k].ctl = 1

\* C3: requestController and additionalController with a type that is not in
\* the catalog fail with UnsupportedControllerType, announce nothing to the host
\* bridge and leave the main controller unchanged.
C3_UnknownTypeRejected ==
    [][(IsCreate(last') /\ last'.type \notin DOMAIN controllerTypes) =>
        /\ last'.err = UnsupportedControllerType
        /\ UNCHANGED <<native, mainController, controllers>>]_vars

\* C4: for every type in the catalog and every options value, create completes
\* without error and returns a controller with enableKeyboard and the remaps
\* applied; a type missing from the catalog is the only cause of failure.
C4_CatalogTypesNeverFail ==
    IsCreate(last) =>
        /\ last.type \in DOMAIN controllerTypes => last.err = NoError
        /\ (last.type \in DOMAIN controllerTypes /\ last.err = NoError) =>
              /\ last.opts.enableKeyboard => Len(keyListeners) = 1
              /\ last.opts.hasButtons =>
                    controllers[last.ret] =
                        remapAll(New(last.type, controllerTypes[last.type]), last.opts.buttons)

\* The catalog table of the specification: type -> {<<name, keyCode>>}.
CatalogTable ==
    [t \in DOMAIN controllerTypes |->
        CASE t = "OneButton" -> {<<"button", 32>>}
          [] t = "TwoButtons" -> {<<"left", 37>>, <<"right", 39>>}
          [] t = "FourButtons" -> {<<"up", 38>>, <<"left", 37>>, <<"right", 39>>, <<"A", 32>>}
          [] t = "FiveButtons" ->
                {<<"up", 38>>, <<"left", 37>>, <<"right", 39>>, <<"A", 32>>, <<"down", 40>>}
          [] t = "SixButtons" ->
                {<<"up", 38>>, <<"left", 37>>, <<"right", 39>>, <<"A", 32>>, <<"down", 40>>,
                 <<"B", 17>>}
          [] t = "Touch" -> {}]

C6_IsDownFollowsLastEvent ==
    \A i \in Ctls : \A k \in DOMAIN controllers[i].btn :
        isDown(controllers[i].btn[k]) = (lastEv[i][k] # "keyup")

\* C6's case: Buttons of one controller in each situation: never dispatched to,
\* last given keyup, last given keydown after an earlier event.
C6_Witness ==
    /\ Len(controllers) = 1
    /\ \E a, b \in DOMAIN controllers[1].btn :
          /\ lastEv[1][a] = "none" /\ isDown(controllers[1].btn[a])
          /\ lastEv[1][b] = "keyup" /\ ~isDown(controllers[1].btn[b])
    /\ last.op = "button.trigger" /\ last.ev = "keydown"
    /\ lastEv[1][last.key] = "keydown" /\ isDown(controllers[1].btn[last.key])

\* C7: for every button layout T and every button name n of T, after
\* requestController(T) and any sequence of session triggers of $keydown / $keyup
\* with a payload {button: m}, the main controller's button n is down exactly when
\* the last such event naming n was $keydown or none named n yet.
C7_SessionKeysReachButtons ==
    (mainController # 0 /\ controllers[mainController].type \in LayoutTypes) =>
        LET c == controllers[mainController]
        IN /\ DOMAIN named[mainController] = {e[1] : e \in CatalogTable[c.type]}
           /\ \A n \in DOMAIN named[mainController] :
                 /\ n \in DOMAIN c.buttons
                 /\ c.buttons[n] \in DOMAIN c.btn
                 /\ isDown(c.btn[c.buttons[n]]) = (named[mainController][n] # "$keyup")

\* C7's case: a SixButtons main controller one of whose buttons was last named by
\* $keyup, another by $keydown, and a third by no event.
C7_Witness ==
    /\ mainController = 1 /\ controllers[1].type = "SixButtons"
    /\ named[1]["up"] = "$keyup" /\ named[1]["B"] = "$keydown" /\ named[1]["A"] = "none"
    /\ last.op = "trigger" /\ last.ev = "$keydown" /\ last.data = Data("B")

\* The Button events among fired.
ButtonEvents(fired) == {k \in 1..Len(fired) : fired[k].on = "button"}

\* C8: for every controller, every button name old present in its button map and
\* every new name different from old, after remapButton(old, {name: new}) the entry
\* buttons[old] is absent, buttons[new] is the Button formerly stored under old,
\* and triggering $keydown or $keyup with {button: old} fires keydown or keyup on
\* that Button exactly once and delivers nothing under the name old.
C8_RemapRoundTrip ==
    [][/\ (/\ last'.op = "remapButton"
           /\ last'.moved \in DOMAIN controllers[last'.ctl].btn
           /\ last'.new # last'.old) =>
              /\ last'.old \notin DOMAIN controllers'[last'.ctl].buttons
              /\ Get(controllers'[last'.ctl].buttons, last'.new) = last'.moved
       /\ (/\ last.op = "remapButton"
           /\ last.moved \in DOMAIN controllers[last.ctl].btn
           /\ last.new # last.old
           /\ last'.op = "controller.trigger"
           /\ last'.ctl = last.ctl
           /\ last'.ev \in PrivateKeyEvents
           /\ last'.data = Data(last.old)) =>
              /\ Cardinality(ButtonEvents(last'.fired)) = 1
              /\ \E k \in ButtonEvents(last'.fired) :
                    /\ last'.fired[k].key = last.moved
                    /\ last'.fired[k].ev = (IF last'.ev = "$keydown" THEN "keydown" ELSE "keyup")
              /\ \A k \in 1..Len(last'.fired) :
                    (last'.fired[k].on = "controller" /\ last'.fired[k].ev \in KeyEvents)
                        => last'.fired[k].data.button # last.old]_vars

\* The names under which the buttons map of c stores the Button b.
StoredUnder(c, b) == {n \in DOMAIN c.buttons : c.buttons[n] = b}

\* C9: for a controller with the keyboard enabled and a button remapped from old
\* to new, a physical key press or release with that button's key code fires
\* keydown / keyup on the Button now stored under new and updates its isDown(),
\* as a host-originated $keydown / $keyup naming old does.
C9_RemapAppliesToKeyboard ==
    last.op = "key" =>
        \A j \in 1..Len(keyListeners) :
            LET l == keyListeners[j]
                c == controllers[l.ctl]
            IN (/\ last.code \in DOMAIN l.keyCodes
                /\ \E old \in DOMAIN c.buttonAlias :
                      /\ c.buttonAlias[old] \in StoredUnder(c, l.keyCodes[last.code])
                      /\ old = l.keyCodes[last.code]) =>
                   /\ \E k \in ButtonEvents(last.fired) :
                         /\ last.fired[k].ctl = l.ctl
                         /\ last.fired[k].key = l.keyCodes[last.code]
                         /\ last.fired[k].ev = last.ev
                   /\ isDown(c.btn[l.keyCodes[last.code]]) = (last.ev = "keydown")

\* The Button of c with key code code, Undef if it has none.
ButtonWithCode(c, code) ==
    IF \E b \in DOMAIN c.btn : c.btn[b].keyCode = code
    THEN CHOOSE b \in DOMAIN c.btn : c.btn[b].keyCode = code
    ELSE Undef

\* C10: for a button-layout controller with the keyboard enabled and no remap, a
\* physical key press (release) with key code c fires keydown (keyup) on exactly
\* the button whose keyCode is c, after suppressing the key's default handling; a
\* key code of no button produces no event, no state change and no suppression.
C10_KeyboardReachesButtonByCode ==
    [][(last'.op = "key" /\ keyListeners # <<>>) =>
        LET i == keyListeners[1].ctl
            b == ButtonWithCode(controllers[i], last'.code)
        IN IF b = Undef
           THEN /\ last'.fired = <<>>
                /\ last'.prevented = <<>>
                /\ last'.err = NoError
                /\ UNCHANGED <<controllers, mainController, native, keyListeners>>
           ELSE /\ last'.fired = <<ControllerEvent(i, last'.ev, Data(b)),
                                   ButtonEvent(i, b, last'.ev)>>
                /\ last'.prevented = <<1>>
                /\ last'.err = NoError
                /\ controllers' = [controllers EXCEPT
                                      ![i].btn[b].pressed = (last'.ev = "keydown")]
                /\ UNCHANGED <<mainController, native, keyListeners>>]_vars

\* C10's case: on a FourButtons controller with the keyboard enabled, key 38 was
\* released, which released "up" and nothing else.
C10_Witness ==
    /\ Len(controllers) = 1 /\ controllers[1].type = "FourButtons"
    /\ keyListeners # <<>>
    /\ last.op = "key" /\ last.ev = "keyup" /\ last.code = 38
    /\ last.prevented = <<1>>
    /\ ~isDown(controllers[1].btn["up"])
    /\ \A b \in DOMAIN controllers[1].btn \ {"up"} : isDown(controllers[1].btn[b])

\* C11: triggering keydown or keyup on a controller with a payload whose button
\* field is missing, or names a button that is not in the button map, produces no
\* Button event, changes no Button's pressed state and does not throw.
C11_UnknownButtonDropped ==
    [][(/\ last'.op = "controller.trigger"
        /\ last'.ev \in KeyEvents
        /\ last'.data.present
        /\ last'.data.button \notin DOMAIN controllers[last'.ctl].buttons) =>
           /\ ButtonEvents(last'.fired) = {}
           /\ controllers'[last'.ctl].btn = controllers[last'.ctl].btn
           /\ last'.err = NoError]_vars
\* A payload that carries no usable button name for the controller c: no payload
\* at all, no button field, or a name that is neither in the button map nor aliased.
Malformed(c, data) ==
    \/ ~data.present
    \/ data.button = Undef
    \/ data.button \notin (DOMAIN c.buttons) \cup (DOMAIN c.buttonAlias)

\* C12: a trigger of $keydown, $keyup, keydown or keyup on a controller, directly
\* or through the session, never raises, whatever the payload; with no payload, a
\* payload without a button field or one naming an unknown button it is dropped
\* with no Button event and no state change.
C12_MalformedInputDropped ==
    [][(/\ last'.op \in {"trigger", "controller.trigger"}
        /\ last'.ev \in KeyEvents \cup PrivateKeyEvents
        /\ last'.op = "trigger" =>
              mainController # 0 /\ HasTrigger(controllers[mainController])) =>
           LET i == IF last'.op = "trigger" THEN mainController ELSE last'.ctl
           IN /\ last'.err = NoError
              /\ Malformed(controllers[i], last'.data) =>
                    /\ ButtonEvents(last'.fired) = {}
                    /\ UNCHANGED <<controllers, mainController, native, keyListeners>>]_vars
\* The controller an event of the last operation was triggered on.
Target(l) == IF l.op = "trigger" THEN mainController ELSE l.ctl

\* C13: a Touch controller has no buttons, and each of $touchstart, $touchend,
\* $touchmove, $touchleave, $touchcancel triggered on it is re-emitted exactly once
\* as the public event of the same name without the $, with the same payload,
\* and nothing else is emitted.
C13_TouchRelay ==
    /\ \A i \in Ctls : controllers[i].type = "Touch" =>
          controllers[i].buttons = EmptyObject /\ controllers[i].btn = EmptyObject
    /\ (/\ last.op \in {"trigger", "controller.trigger"}
        /\ last.ev \in TouchPrivate
        /\ Target(last) # 0
        /\ controllers[Target(last)].type = "Touch") =>
           /\ last.err = NoError
           /\ Len(last.fired) = 2
           /\ last.fired[1] = ControllerEvent(Target(last), last.ev, last.data)
           /\ last.fired[2].on = "controller"
           /\ last.fired[2].ctl = Target(last)
           /\ "$" \o last.fired[2].ev = last.ev
           /\ last.fired[2].data = last.data

\* C13's case: $touchleave with a position went through the session to a Touch
\* main controller and came out as touchleave with that position.
C13_Witness ==
    /\ mainController = 1 /\ controllers[1].type = "Touch"
    /\ last.op = "trigger" /\ last.ev = "$touchleave" /\ last.data = Position(0, 1)
    /\ last.fired[2] = ControllerEvent(1, "touchleave", Position(0, 1))
\* C14: after any sequence of remapButton calls on a controller, those of the
\* create options included, every entry old -> new of buttonAlias points at a name
\* of the button map that stores a Button, and a $keydown / $keyup naming old
\* reaches a Button.
C14_AliasPointsAtButton ==
    /\ \A i \in Ctls : \A old \in DOMAIN controllers[i].buttonAlias :
          /\ controllers[i].buttonAlias[old] \in DOMAIN controllers[i].buttons
          /\ controllers[i].buttons[controllers[i].buttonAlias[old]] \in DOMAIN controllers[i].btn
    /\ (/\ last.op = "controller.trigger"
        /\ last.ev \in PrivateKeyEvents
        /\ last.data.present
        /\ last.data.button \in DOMAIN controllers[last.ctl].buttonAlias) =>
           ButtonEvents(last.fired) # {}
\* The public keydown / keyup events of the controller among fired.
PublicKeyEvents(fired) ==
    {k \in 1..Len(fired) : fired[k].on = "controller" /\ fired[k].ev \in KeyEvents}

\* C15: each $keydown / $keyup triggered on a controller with a payload {button: b}
\* causes exactly one public keydown / keyup on that controller, whose subscribers
\* see the button field buttonAlias[b] when b has an alias entry and b otherwise; a
\* public keydown / keyup triggered directly is not rewritten.
C15_OnePublicEventAliased ==
    (/\ last.op = "controller.trigger"
     /\ last.data.present
     /\ last.data.button # Undef) =>
        LET c == controllers[last.ctl]
            b == last.data.button
            pub == PublicKeyEvents(last.fired)
        IN /\ last.ev \in PrivateKeyEvents =>
                 /\ Cardinality(pub) = 1
                 /\ \A k \in pub :
                       /\ last.fired[k].ctl = last.ctl
                       /\ last.fired[k].ev = (IF last.ev = "$keydown" THEN "keydown" ELSE "keyup")
                       /\ last.fired[k].data.button =
                             (IF b \in DOMAIN c.buttonAlias THEN c.buttonAlias[b] ELSE b)
           /\ last.ev \in KeyEvents =>
                 /\ pub = {1}
                 /\ last.fired[1].data = last.data
\* C16: whenever a function the game subscribed to a controller's keydown / keyup,
\* or to a Button's, is called for a button, that button's isDown() already
\* reflects the event (true for keydown, false for keyup), and the Button's
\* subscribers are called before the controller's.
C16_SubscribersSeeNewState ==
    (last.op \in {"controller.trigger", "button.trigger"}) =>
        /\ \A k \in 1..Len(last.views) :
              last.views[k].known => (last.views[k].down = (last.views[k].ev = "keydown"))
        /\ \A j, k \in 1..Len(last.views) :
              (last.views[j].on = "controller" /\ last.views[k].on = "button") => k < j
        /\ (last.op = "controller.trigger" /\ ButtonEvents(last.fired) # {}) =>
              /\ Len(last.views) = 2
              /\ last.views[1].on = "button" /\ last.views[2].on = "controller"
              /\ \A k \in ButtonEvents(last.fired) : last.views[1].key = last.fired[k].key
        /\ last.op = "button.trigger" =>
              /\ Len(last.views) = 1
              /\ last.views[1].key = last.key /\ last.views[1].ev = last.ev

\* C16's case: $keyup naming "right" was triggered on a controller whose button
\* "right" was down; the Button's subscriber and then the controller's were
\* called, and both saw the button released.
C16_Witness ==
    /\ last.op = "controller.trigger" /\ last.ev = "$keyup" /\ last.data = Data("right")
    /\ Len(last.views) = 2
    /\ last.views[1] = [on |-> "button", ctl |-> 1, key |-> "right", ev |-> "keyup",
                         known |-> TRUE, down |-> FALSE]
    /\ last.views[2] = [on |-> "controller", ctl |-> 1, key |-> "right", ev |-> "keyup",
                         known |-> TRUE, down |-> FALSE]
    /\ lastEv[1]["right"] = "keyup"
\* The names of the button map of c that store a Button.
ButtonNames(c) == {n \in DOMAIN c.buttons : c.buttons[n] \in DOMAIN c.btn}

\* C17: after any sequence of remapButton calls, with any old and new names, every
\* Button the controller was built with is stored in the button map under exactly
\* one name, so the number of Buttons the map holds is unchanged.
C17_RemapKeepsButtons ==
    \A i \in Ctls :
        /\ \A b \in DOMAIN controllers[i].btn : Cardinality(StoredUnder(controllers[i], b)) = 1
        /\ Cardinality(ButtonNames(controllers[i])) = Cardinality(DOMAIN controllers[i].btn)
\* The Buttons of the controller at index i that differ before and after a step.
ChangedButtons(i) ==
    {b \in DOMAIN controllers[i].btn : controllers'[i].btn[b] # controllers[i].btn[b]}

\* C18: an event triggered through the session or on a controller leaves every
\* controller's button map and alias map and the main controller unchanged,
\* changes the pressed state of at most the one Button it resolves to, and changes
\* no Button of another controller.
C18_DispatchFrame ==
    [][last'.op \in {"trigger", "controller.trigger"} =>
        /\ UNCHANGED <<mainController, native, keyListeners>>
        /\ Len(controllers') = Len(controllers)
        /\ \A k \in Ctls :
              /\ controllers'[k].buttons = controllers[k].buttons
              /\ controllers'[k].buttonAlias = controllers[k].buttonAlias
              /\ DOMAIN controllers'[k].btn = DOMAIN controllers[k].btn
              /\ k # Target(last') => controllers'[k] = controllers[k]
        /\ Target(last') # 0 =>
              /\ Cardinality(ChangedButtons(Target(last'))) <= 1
              /\ \A b \in ChangedButtons(Target(last')) :
                    /\ \E k \in ButtonEvents(last'.fired) : last'.fired[k].key = b
                    /\ controllers'[Target(last')].btn[b] =
                          [controllers[Target(last')].btn[b] EXCEPT
                              !.pressed = ~controllers[Target(last')].btn[b].pressed]]_vars

\* C18's case: keyup naming "left" was triggered on an additional controller and
\* released its Button left, while the main controller's left and right, and
\* the additional controller's right, stayed down.
C18_Witness ==
    /\ Len(controllers) = 2 /\ mainController = 1
    /\ controllers[2].type = "TwoButtons" /\ controllers[2].buttonAlias = EmptyObject
    /\ last.op = "controller.trigger" /\ last.ctl = 2
    /\ last.ev = "keyup" /\ last.data = Data("left")
    /\ ~isDown(controllers[2].btn["left"]) /\ isDown(controllers[2].btn["right"])
    /\ \A b \in DOMAIN controllers[1].btn : isDown(controllers[1].btn[b])
\* C19: a physical key press or release is delivered to every controller on
\* which enableKeyboard was called and that has a button with that key code,
\* whether it is the main controller, an additional one or a former main one, and
\* to no other controller; the main controller stays what it was.
C19_KeyboardIgnoresMain ==
    [][last'.op = "key" =>
        /\ UNCHANGED <<mainController, native, keyListeners>>
        /\ \A i \in Ctls :
              LET b == ButtonWithCode(controllers[i], last'.code)
                  delivered == \E k \in 1..Len(last'.fired) : last'.fired[k].ctl = i
              IN /\ delivered <=> (Listening(i) /\ b # Undef)
                 /\ delivered =>
                       /\ \E k \in 1..Len(last'.fired) :
                             last'.fired[k] = ControllerEvent(i, last'.ev, Data(b))
                       /\ \E k \in 1..Len(last'.fired) :
                             last'.fired[k] = ButtonEvent(i, b, last'.ev)
                       /\ controllers'[i] =
                             [controllers[i] EXCEPT !.btn[b].pressed = (last'.ev = "keydown")]
                 /\ ~delivered => controllers'[i] = controllers[i]]_vars

\* C19's case: a OneButton controller requested with the keyboard was replaced
\* as main controller by one requested without it; the release of the space key
\* released the former main controller's button and not the main controller's.
C19_Witness ==
    /\ Len(controllers) = 2 /\ mainController = 2
    /\ controllers[1].type = "OneButton" /\ controllers[2].type = "OneButton"
    /\ Listening(1) /\ ~Listening(2)
    /\ last.op = "key" /\ last.ev = "keyup" /\ last.code = 32
    /\ ~isDown(controllers[1].btn["button"])
    /\ isDown(controllers[2].btn["button"])

=============================================================================
